---- MODULE Spec2Model ----
(***************************************************************************)
(* Pass-execution and resource-binding layer of the slingshot render       *)
(* graph (crates/slingshot/src/rg/pass_api.rs).                             *)
(*                                                                         *)
(* The device is modelled by the ordered log of the calls made on it       *)
(* (command-buffer commands and object creation), the collaborators        *)
(* (resource registry, pipeline cache) by small fixed tables.              *)
(***************************************************************************)
EXTENDS Integers, Sequences, FiniteSets, TLC

VARIABLES
    builder,            \* the pipeline binding builder under construction
    bound,              \* the bound-pipeline handle last returned
    log,                \* device calls, in the order they were made
    calls,              \* the API calls made so far, each with its log range
    next_handle,        \* next fresh object handle the device hands out
    framebuffer_cache,  \* render pass -> set of <<key, framebuffer>>
    panicked,           \* a fatal condition (panic) ended the program
    nops                \* number of API operations performed

vars == <<builder, bound, log, calls, next_handle, framebuffer_cache, panicked, nops>>

---------------------------------------------------------------------------
(* Bounds of the model *)

\* API operations (builder steps, binds, dispatches) in one recording session
MaxOps == 6
\* dispatch calls in one session
MaxDispatches == 1
\* begin_render_pass calls in one session
MaxPasses == 2
\* direct bind_descriptor_set applications in one session
MaxMats == 2
\* modelled width, in bits, of the u32 thread counts and group sizes
WordBits == 8

U32Modulus == 2 ^ WordBits
U32Max == U32Modulus - 1

---------------------------------------------------------------------------
(* Collaborators: fixed tables standing for the registry and pipeline cache *)

\* set_layout_info of the pipelines: per set, the declared binding indices
SetLayoutA == << {0} >>
SetLayoutB == << {0, 2}, {}, {0} >>
SetLayoutC == << {1}, {0}, {} >>

ComputePipelineHandles == {"cs_a", "cs_b", "cs_c"}
RasterPipelineHandles == {"rs_a", "rs_b", "rs_c"}

LayoutOfHandle(h) ==
    CASE h \in {"cs_a", "rs_a"} -> SetLayoutA
      [] h \in {"cs_b", "rs_b"} -> SetLayoutB
      [] OTHER -> SetLayoutC

GroupSizeOfHandle(h) ==
    CASE h = "cs_a" -> <<64, 1, 1>>
      [] h = "cs_b" -> <<8, 8, 1>>
      [] OTHER -> <<2, 3, 4>>

\* resources.compute_pipeline(handle)
compute_pipeline(h) ==
    [handle |-> h, pipeline_bind_point |-> "COMPUTE",
     set_layout_info |-> LayoutOfHandle(h), group_size |-> GroupSizeOfHandle(h)]

\* resources.raster_pipeline(handle)
raster_pipeline(h) ==
    [handle |-> h, pipeline_bind_point |-> "GRAPHICS",
     set_layout_info |-> LayoutOfHandle(h)]

\* execution_params.frame_descriptor_set / frame_constants_offset
frame_descriptor_set == [kind |-> "frame", id |-> 0]
frame_constants_offset == "frame_constants_offset"

RenderPasses == {"rp_a", "rp_b"}

RawDescriptorSets == {[kind |-> "raw", id |-> 1]}

\* image descriptors of the registry's images: img_a and img_b share one
ImageHandles == {"img_a", "img_b", "img_c", "depth_a", "depth_b"}
ImageDescOfHandle(h) ==
    CASE h \in {"img_a", "img_b"} -> [format |-> "RGBA16F", extent |-> <<64, 64>>, samples |-> 1]
      [] h = "img_c" -> [format |-> "RGBA8", extent |-> <<64, 64>>, samples |-> 1]
      [] h = "depth_a" -> [format |-> "D32", extent |-> <<64, 64>>, samples |-> 1]
      [] OTHER -> [format |-> "D32", extent |-> <<64, 64>>, samples |-> 4]

\* resources.image_view(handle, view_desc): the registry's view of an image
image_view(handle, view_desc) == [image |-> handle, view_desc |-> view_desc]

\* resources.buffer_from_raw_handle(handle).raw
buffer_from_raw_handle(handle) == [buffer |-> handle]

---------------------------------------------------------------------------
(* Typed references and Ref::bind *)

ImageRefs == [res : {"Image"}, access : {"GpuSrv", "GpuUav"}, handle : {"img_a", "img_c"}]
BufferRefs == [res : {"Buffer"}, access : {"GpuSrv", "GpuUav"}, handle : {"buf_a"}]
BindableRefs == ImageRefs \cup BufferRefs

Ref(res, access, handle) == [res |-> res, access |-> access, handle |-> handle]

\* Ref<Image, GpuSrv>::bind and Ref<Image, GpuUav>::bind
bind_image(ref, view_desc) ==
    IF ref.access = "GpuSrv"
    THEN [tag |-> "Image", handle |-> ref.handle, view_desc |-> view_desc,
          image_layout |-> "SHADER_READ_ONLY_OPTIMAL"]
    ELSE [tag |-> "Image", handle |-> ref.handle, view_desc |-> view_desc,
          image_layout |-> "GENERAL"]

\* Ref<Buffer, GpuSrv>::bind and Ref<Buffer, GpuUav>::bind
bind_buffer(ref) == [tag |-> "Buffer", handle |-> ref.handle]

\* bind() on any bindable reference
bind(ref, view_desc) ==
    IF ref.res = "Image" THEN bind_image(ref, view_desc) ELSE bind_buffer(ref)

\* the closure of bind_*_pipeline turning one RenderPassBinding into a
\* DescriptorSetBinding
ToDescriptorSetBinding(binding) ==
    IF binding.tag = "Image"
    THEN [tag |-> "Image", image_layout |-> binding.image_layout,
          image_view |-> image_view(binding.handle, binding.view_desc)]
    ELSE [tag |-> "Buffer", buffer |-> buffer_from_raw_handle(binding.handle),
          range |-> "WHOLE_SIZE"]

ToDescriptorSetBindings(bindings) ==
    [i \in 1..Len(bindings) |-> ToDescriptorSetBinding(bindings[i])]

---------------------------------------------------------------------------
(* Descriptor set materialization: bind_descriptor_set *)

\* pipeline.set_layout_info.get(set_index) is Some
HasSet(set_layout_info, set_index) == set_index < Len(set_layout_info)

\* pipeline.set_layout_info[set_index] (0-based, like the Vec)
SetInfo(set_layout_info, set_index) == set_layout_info[set_index + 1]

\* a faulty variant of Declared: no filtering of the binding list
DeclaredAlways(shader_set_info, binding_idx) == TRUE

\* shader_set_info.contains_key(&binding_idx)
Declared(shader_set_info, binding_idx) == binding_idx \in shader_set_info

\* a faulty variant of DescriptorTypeOfLayout: the two image types exchanged
DescriptorTypeSwapped(image_layout) ==
    CASE image_layout = "SHADER_READ_ONLY_OPTIMAL" -> "STORAGE_IMAGE"
      [] image_layout = "GENERAL" -> "SAMPLED_IMAGE"
      [] OTHER -> "unimplemented"

\* match image.image_layout { ... _ => unimplemented!() }
DescriptorTypeOfLayout(image_layout) ==
    CASE image_layout = "SHADER_READ_ONLY_OPTIMAL" -> "SAMPLED_IMAGE"
      [] image_layout = "GENERAL" -> "STORAGE_IMAGE"
      [] OTHER -> "unimplemented"

\* the vk::WriteDescriptorSet built for one retained binding
WriteDescriptorSet(descriptor_set, binding_idx, binding) ==
    [dst_set |-> descriptor_set, dst_binding |-> binding_idx, dst_array_element |-> 0,
     descriptor_type |-> IF binding.tag = "Image"
                         THEN DescriptorTypeOfLayout(binding.image_layout)
                         ELSE "STORAGE_BUFFER",
     info |-> binding]

\* bindings.iter().enumerate().filter(..).map(..).collect(), from position
\* binding_idx on; the iterator is lazy, so an unsupported layout panics when
\* the first retained binding carrying one is mapped
RECURSIVE DescriptorWrites(_, _, _, _)
DescriptorWrites(shader_set_info, descriptor_set, bindings, binding_idx) ==
    IF binding_idx >= Len(bindings)
    THEN [writes |-> <<>>, unimplemented |-> FALSE]
    ELSE LET binding == bindings[binding_idx + 1]
             rest == DescriptorWrites(shader_set_info, descriptor_set, bindings, binding_idx + 1)
         IN  IF ~Declared(shader_set_info, binding_idx)
             THEN rest
             ELSE IF binding.tag = "Image"
                     /\ DescriptorTypeOfLayout(binding.image_layout) = "unimplemented"
                  THEN [writes |-> <<>>, unimplemented |-> TRUE]
                  ELSE [writes |-> <<WriteDescriptorSet(descriptor_set, binding_idx, binding)>>
                                     \o rest.writes,
                        unimplemented |-> rest.unimplemented]

\* a faulty variant of MissingSet: a missing set index treated as fatal
MissingSetFatal(set_index, next) ==
    [events |-> <<[op |-> "println", set_index |-> set_index]>>,
     next |-> next, panicked |-> TRUE]

\* the else branch of the layout lookup: log, then return
MissingSet(set_index, next) ==
    [events |-> <<[op |-> "println", set_index |-> set_index]>>,
     next |-> next, panicked |-> FALSE]

\* a faulty variant of PoolSetup: the pool is never handed to defer_release
PoolSetupNoRelease(pipeline, set_index, descriptor_pool, descriptor_set) ==
    << [op |-> "create_descriptor_pool", pool |-> descriptor_pool, max_sets |-> 1],
       [op |-> "allocate_descriptor_sets", pool |-> descriptor_pool,
        set |-> descriptor_set, set_layout |-> <<pipeline.handle, set_index>>] >>

\* create_descriptor_pool, defer_release, allocate_descriptor_sets
PoolSetup(pipeline, set_index, descriptor_pool, descriptor_set) ==
    << [op |-> "create_descriptor_pool", pool |-> descriptor_pool, max_sets |-> 1],
       [op |-> "defer_release", pool |-> descriptor_pool],
       [op |-> "allocate_descriptor_sets", pool |-> descriptor_pool,
        set |-> descriptor_set, set_layout |-> <<pipeline.handle, set_index>>] >>

\* a faulty variant of UpdateAndBind: nothing is done when no write survives
UpdateAndBindUnlessEmpty(pipeline, set_index, descriptor_set, descriptor_writes) ==
    IF descriptor_writes = <<>>
    THEN <<>>
    ELSE << [op |-> "update_descriptor_sets", writes |-> descriptor_writes],
            [op |-> "cmd_bind_descriptor_sets", bind_point |-> pipeline.pipeline_bind_point,
             first_set |-> set_index, set |-> descriptor_set, offsets |-> <<>>] >>

\* update_descriptor_sets(&descriptor_writes), then cmd_bind_descriptor_sets
UpdateAndBind(pipeline, set_index, descriptor_set, descriptor_writes) ==
    << [op |-> "update_descriptor_sets", writes |-> descriptor_writes],
       [op |-> "cmd_bind_descriptor_sets", bind_point |-> pipeline.pipeline_bind_point,
        first_set |-> set_index, set |-> descriptor_set, offsets |-> <<>>] >>

\* bind_descriptor_set(device, cb, pipeline, set_index, bindings): the device
\* calls it makes, the next fresh handle and whether it panicked
bind_descriptor_set(pipeline, set_index, bindings, next) ==
    IF ~HasSet(pipeline.set_layout_info, set_index)
    THEN MissingSet(set_index, next)
    ELSE LET shader_set_info == SetInfo(pipeline.set_layout_info, set_index)
             descriptor_pool == [kind |-> "pool", id |-> next]
             descriptor_set == [kind |-> "transient", id |-> next + 1]
             w == DescriptorWrites(shader_set_info, descriptor_set, bindings, 0)
             setup == PoolSetup(pipeline, set_index, descriptor_pool, descriptor_set)
         IN  IF w.unimplemented
             THEN [events |-> setup, next |-> next + 2, panicked |-> TRUE]
             ELSE [events |-> setup \o UpdateAndBind(pipeline, set_index, descriptor_set, w.writes),
                   next |-> next + 2, panicked |-> FALSE]

---------------------------------------------------------------------------
(* Inputs the pass author supplies *)

SetIndices == {0, 2}

ViewDescs == {"view_default", "view_mip1"}

\* the binding lists handed to descriptor_set, each made with bind()
BindingLists ==
    { <<>>,
      << bind(Ref("Image", "GpuSrv", "img_a"), "view_default"),
         bind(Ref("Buffer", "GpuSrv", "buf_a"), "view_default") >>,
      << bind(Ref("Image", "GpuUav", "img_c"), "view_mip1"),
         bind(Ref("Buffer", "GpuUav", "buf_a"), "view_default"),
         bind(Ref("Image", "GpuSrv", "img_c"), "view_default") >> }

---------------------------------------------------------------------------
(* Pipeline binding builders.  A builder is consumed exactly once by a bind, *)
(* so a builder step is taken only while the session has room for that bind. *)

NoBuilder == [kind |-> "none"]
NoBound == [kind |-> "none"]

\* RenderPassComputePipelineBinding::new / RgComputePipelineHandle::into_binding
ComputeBindingNew(pipeline) ==
    [kind |-> "compute", pipeline |-> pipeline, bindings |-> <<>>, raw_bindings |-> <<>>]

\* RenderPassRasterPipelineBinding::new / RgRasterPipelineHandle::into_binding
RasterBindingNew(pipeline) ==
    [kind |-> "raster", pipeline |-> pipeline, bindings |-> <<>>, raw_bindings |-> <<>>]

\* self.bindings.push((set_idx, bindings))
PushBinding(self, set_idx, bindings) ==
    [self EXCEPT !.bindings = Append(@, <<set_idx, bindings>>)]

\* self.raw_bindings.push((set_idx, binding))
PushRawBinding(self, set_idx, binding) ==
    [self EXCEPT !.raw_bindings = Append(@, <<set_idx, binding>>)]

compute_into_binding ==
    /\ ~panicked /\ nops + 1 < MaxOps
    /\ builder = NoBuilder
    /\ \E h \in ComputePipelineHandles : builder' = ComputeBindingNew(h)
    /\ nops' = nops + 1
    /\ UNCHANGED <<bound, log, calls, next_handle, framebuffer_cache, panicked>>

raster_into_binding ==
    /\ ~panicked /\ nops + 1 < MaxOps
    /\ builder = NoBuilder
    /\ \E h \in RasterPipelineHandles : builder' = RasterBindingNew(h)
    /\ nops' = nops + 1
    /\ UNCHANGED <<bound, log, calls, next_handle, framebuffer_cache, panicked>>

compute_descriptor_set ==
    /\ ~panicked /\ nops + 1 < MaxOps
    /\ builder.kind = "compute"
    /\ \E set_idx \in SetIndices, bindings \in BindingLists :
          builder' = PushBinding(builder, set_idx, bindings)
    /\ nops' = nops + 1
    /\ UNCHANGED <<bound, log, calls, next_handle, framebuffer_cache, panicked>>

raster_descriptor_set ==
    /\ ~panicked /\ nops + 1 < MaxOps
    /\ builder.kind = "raster"
    /\ \E set_idx \in SetIndices, bindings \in BindingLists :
          builder' = PushBinding(builder, set_idx, bindings)
    /\ nops' = nops + 1
    /\ UNCHANGED <<bound, log, calls, next_handle, framebuffer_cache, panicked>>

compute_raw_descriptor_set ==
    /\ ~panicked /\ nops + 1 < MaxOps
    /\ builder.kind = "compute"
    /\ \E set_idx \in SetIndices, binding \in RawDescriptorSets :
          builder' = PushRawBinding(builder, set_idx, binding)
    /\ nops' = nops + 1
    /\ UNCHANGED <<bound, log, calls, next_handle, framebuffer_cache, panicked>>

raster_raw_descriptor_set ==
    /\ ~panicked /\ nops + 1 < MaxOps
    /\ builder.kind = "raster"
    /\ \E set_idx \in SetIndices, binding \in RawDescriptorSets :
          builder' = PushRawBinding(builder, set_idx, binding)
    /\ nops' = nops + 1
    /\ UNCHANGED <<bound, log, calls, next_handle, framebuffer_cache, panicked>>

---------------------------------------------------------------------------
(* bind_compute_pipeline / bind_raster_pipeline *)

\* a faulty variant of HasFrameConstants: the emptiness of set 2 is not looked at
HasFrameConstantsAnySet(pipeline) == HasSet(pipeline.set_layout_info, 2)

\* set_layout_info.get(2).map(|set| !set.is_empty()).unwrap_or_default()
HasFrameConstants(pipeline) ==
    /\ HasSet(pipeline.set_layout_info, 2)
    /\ SetInfo(pipeline.set_layout_info, 2) # {}

\* cmd_bind_pipeline, then the frame constants set when the layout has one
BindPipelineAndFrameConstants(pipeline) ==
    << [op |-> "cmd_bind_pipeline", bind_point |-> pipeline.pipeline_bind_point,
        pipeline |-> pipeline.handle] >>
    \o IF HasFrameConstants(pipeline)
       THEN << [op |-> "cmd_bind_descriptor_sets", bind_point |-> pipeline.pipeline_bind_point,
                first_set |-> 2, set |-> frame_descriptor_set,
                offsets |-> <<frame_constants_offset>>] >>
       ELSE <<>>

\* one iteration of the loop over binding.bindings; st.events is the device
\* log so far, st.mats the log range of every bind_descriptor_set call
BindOneDeclaredSet(pipeline, pair, st) ==
    LET bindings == ToDescriptorSetBindings(pair[2])
        r == bind_descriptor_set(pipeline, pair[1], bindings, st.next)
    IN  [events |-> st.events \o r.events,
         mats |-> Append(st.mats, [set_index |-> pair[1], bindings |-> bindings,
                                   from |-> Len(st.events),
                                   to |-> Len(st.events) + Len(r.events)]),
         next |-> r.next,
         panicked |-> r.panicked]

\* a faulty variant of BindDeclaredSets: the pairs are walked last to first
RECURSIVE BindDeclaredSetsReversed(_, _, _)
BindDeclaredSetsReversed(pipeline, bindings, st) ==
    IF bindings = <<>> \/ st.panicked
    THEN st
    ELSE BindDeclaredSetsReversed(pipeline, SubSeq(bindings, 1, Len(bindings) - 1),
                                  BindOneDeclaredSet(pipeline, bindings[Len(bindings)], st))

\* for (set_index, bindings) in binding.bindings { ... bind_descriptor_set(..) }
RECURSIVE BindDeclaredSets(_, _, _)
BindDeclaredSets(pipeline, bindings, st) ==
    IF bindings = <<>> \/ st.panicked
    THEN st
    ELSE BindDeclaredSets(pipeline, Tail(bindings),
                          BindOneDeclaredSet(pipeline, Head(bindings), st))

\* for (set_idx, binding) in binding.raw_bindings { cmd_bind_descriptor_sets }
BindRawSets(pipeline, raw_bindings) ==
    [i \in 1..Len(raw_bindings) |->
        [op |-> "cmd_bind_descriptor_sets", bind_point |-> pipeline.pipeline_bind_point,
         first_set |-> raw_bindings[i][1], set |-> raw_bindings[i][2], offsets |-> <<>>]]

\* (the singleton quantifiers name a value that is computed once)
bind_compute_pipeline ==
    /\ ~panicked /\ nops < MaxOps
    /\ builder.kind = "compute"
    /\ \E pipeline \in {compute_pipeline(builder.pipeline)} :
       \E st \in {BindDeclaredSets(pipeline, builder.bindings,
                    [events |-> log \o BindPipelineAndFrameConstants(pipeline),
                     mats |-> <<>>, next |-> next_handle, panicked |-> FALSE])} :
       \E final \in {IF st.panicked
                    THEN st.events
                    ELSE st.events \o BindRawSets(pipeline, builder.raw_bindings)} :
           /\ log' = final
           /\ calls' = Append(calls, [fn |-> "bind_compute_pipeline", pipeline |-> pipeline,
                                      binding |-> builder, mats |-> st.mats,
                                      from |-> Len(log), to |-> Len(final)])
           /\ next_handle' = st.next
           /\ panicked' = st.panicked
           /\ bound' = IF st.panicked THEN bound
                       ELSE [kind |-> "compute", pipeline |-> pipeline]
    /\ builder' = NoBuilder
    /\ nops' = nops + 1
    /\ UNCHANGED framebuffer_cache

\* the raw_bindings of the builder are not read by bind_raster_pipeline
bind_raster_pipeline ==
    /\ ~panicked /\ nops < MaxOps
    /\ builder.kind = "raster"
    /\ \E pipeline \in {raster_pipeline(builder.pipeline)} :
       \E st \in {BindDeclaredSets(pipeline, builder.bindings,
                    [events |-> log \o BindPipelineAndFrameConstants(pipeline),
                     mats |-> <<>>, next |-> next_handle, panicked |-> FALSE])} :
           /\ log' = st.events
           /\ calls' = Append(calls, [fn |-> "bind_raster_pipeline", pipeline |-> pipeline,
                                      binding |-> builder, mats |-> st.mats,
                                      from |-> Len(log), to |-> Len(st.events)])
           /\ next_handle' = st.next
           /\ panicked' = st.panicked
           /\ bound' = IF st.panicked THEN bound
                       ELSE [kind |-> "raster", pipeline |-> pipeline]
    /\ builder' = NoBuilder
    /\ nops' = nops + 1
    /\ UNCHANGED framebuffer_cache

---------------------------------------------------------------------------
(* Specification of pipeline binding *)

Init ==
    /\ builder = NoBuilder
    /\ bound = NoBound
    /\ log = <<>>
    /\ calls = <<>>
    /\ next_handle = 1
    /\ framebuffer_cache = [rp \in RenderPasses |-> {}]
    /\ panicked = FALSE
    /\ nops = 0

Next ==
    \/ compute_into_binding
    \/ raster_into_binding
    \/ compute_descriptor_set
    \/ raster_descriptor_set
    \/ compute_raw_descriptor_set
    \/ raster_raw_descriptor_set
    \/ bind_compute_pipeline
    \/ bind_raster_pipeline

Spec == Init /\ [][Next]_vars

---------------------------------------------------------------------------
(* BoundComputePipeline::dispatch *)

\* the thread counts handed to dispatch
ThreadCounts ==
    { <<65, 1, 1>>, <<0, 0, 0>>, <<1, 1, 1>>, <<64, 64, 64>>,
      <<U32Max, 1, 1>>, <<U32Max - 1, 7, 9>>, <<1, U32Max, 1>>, <<3, 5, U32Max - 2>> }

\* threads + group_size overflows the u32
AddOverflows(threads, group_size) == threads + group_size > U32Max

\* (threads + group_size - 1) / group_size in wrapping u32 arithmetic
GroupCount(threads, group_size) ==
    ((((threads + group_size) % U32Modulus) + U32Modulus - 1) % U32Modulus) \div group_size

NumDispatches == Cardinality({i \in DOMAIN calls : calls[i].fn = "dispatch"})

\* An overflowing addition panics in a build with overflow checks and wraps
\* in a build without them: both outcomes are possible.
dispatch ==
    /\ ~panicked /\ nops < MaxOps
    /\ NumDispatches < MaxDispatches
    /\ bound.kind = "compute"
    /\ \E threads \in ThreadCounts :
         LET group_size == bound.pipeline.group_size
             overflow == \E a \in 1..3 : AddOverflows(threads[a], group_size[a])
             cmd == [op |-> "cmd_dispatch",
                     groups |-> [a \in 1..3 |-> GroupCount(threads[a], group_size[a])]]
         IN  \/ /\ log' = Append(log, cmd)
                /\ panicked' = FALSE
                /\ calls' = Append(calls, [fn |-> "dispatch", pipeline |-> bound.pipeline,
                                           threads |-> threads,
                                           from |-> Len(log), to |-> Len(log) + 1])
             \/ /\ overflow
                /\ log' = log
                /\ panicked' = TRUE
                /\ calls' = Append(calls, [fn |-> "dispatch", pipeline |-> bound.pipeline,
                                           threads |-> threads,
                                           from |-> Len(log), to |-> Len(log)])
    /\ nops' = nops + 1
    /\ UNCHANGED <<builder, bound, next_handle, framebuffer_cache>>

NextDispatch ==
    \/ compute_into_binding
    \/ bind_compute_pipeline
    \/ dispatch

SpecDispatch == Init /\ [][NextDispatch]_vars

---------------------------------------------------------------------------
(* begin_render_pass / end_render_pass *)

Dims == { <<64, 64>>, <<32, 32>> }

Attachment(handle, view_desc) ==
    [ref |-> Ref("Image", "GpuRt", handle), view |-> view_desc]

\* color_attachments: &[(Ref<Image, GpuRt>, &ImageViewDesc)]
ColorAttachmentLists ==
    { << Attachment("img_a", "view_default") >>,
      << Attachment("img_b", "view_default") >>,
      << Attachment("img_c", "view_default") >> }

\* depth_attachment: Option<..>, a sequence of at most one attachment
DepthAttachments ==
    { <<>>, << Attachment("depth_a", "view_default") >>,
      << Attachment("depth_b", "view_default") >> }

\* a faulty variant of AttachmentDesc: the key is built from resource identity
AttachmentHandle(handle) == [format |-> handle, extent |-> <<0, 0>>, samples |-> 0]

\* &self.resources.image_from_raw_handle::<GpuRt>(a.handle).desc
AttachmentDesc(handle) == ImageDescOfHandle(handle)

\* FramebufferCacheKey::new(dims, color descriptors, depth descriptor)
FramebufferCacheKey(dims, color_descs, depth_desc) ==
    [dims |-> dims, color |-> color_descs, depth |-> depth_desc]

\* the key begin_render_pass builds from its arguments
KeyOfAttachments(dims, color_attachments, depth_attachment) ==
    FramebufferCacheKey(
        dims,
        [i \in 1..Len(color_attachments) |-> AttachmentDesc(color_attachments[i].ref.handle)],
        [i \in 1..Len(depth_attachment) |-> AttachmentDesc(depth_attachment[i].ref.handle)])

\* framebuffer_cache.get_or_create: the cached framebuffer of the key, or a
\* newly created one that is then cached
CacheHit(cache, key) == \E e \in cache : e.key = key
CachedFramebuffer(cache, key) == (CHOOSE e \in cache : e.key = key).framebuffer

\* the views handed to the imageless framebuffer: colors, then depth
ImageAttachments(color_attachments, depth_attachment) ==
    [i \in 1..(Len(color_attachments) + Len(depth_attachment)) |->
        LET a == (color_attachments \o depth_attachment)[i]
        IN  image_view(a.ref.handle, a.view)]

NumPasses == Cardinality({i \in DOMAIN calls : calls[i].fn = "begin_render_pass"})
NumEnds == Cardinality({i \in DOMAIN calls : calls[i].fn = "end_render_pass"})

begin_render_pass ==
    /\ ~panicked /\ nops < MaxOps
    /\ NumPasses < MaxPasses
    /\ \E render_pass \in RenderPasses, dims \in Dims,
          color_attachments \in ColorAttachmentLists,
          depth_attachment \in DepthAttachments :
         LET key == KeyOfAttachments(dims, color_attachments, depth_attachment)
             cache == framebuffer_cache[render_pass]
             hit == CacheHit(cache, key)
             framebuffer == IF hit THEN CachedFramebuffer(cache, key)
                            ELSE [kind |-> "framebuffer", id |-> next_handle]
             created == IF hit THEN <<>>
                        ELSE << [op |-> "create_framebuffer", render_pass |-> render_pass,
                                 key |-> key, framebuffer |-> framebuffer] >>
             begin == [op |-> "cmd_begin_render_pass", render_pass |-> render_pass,
                       framebuffer |-> framebuffer,
                       attachments |-> ImageAttachments(color_attachments, depth_attachment),
                       render_area |-> [offset |-> <<0, 0>>, extent |-> dims]]
         IN  /\ log' = log \o created \o <<begin>>
             /\ framebuffer_cache' =
                    IF hit THEN framebuffer_cache
                    ELSE [framebuffer_cache EXCEPT ![render_pass] =
                             @ \cup {[key |-> key, framebuffer |-> framebuffer]}]
             /\ next_handle' = IF hit THEN next_handle ELSE next_handle + 1
             /\ calls' = Append(calls, [fn |-> "begin_render_pass", render_pass |-> render_pass,
                                        dims |-> dims, color_attachments |-> color_attachments,
                                        depth_attachment |-> depth_attachment,
                                        from |-> Len(log), to |-> Len(log) + Len(created) + 1])
    /\ nops' = nops + 1
    /\ UNCHANGED <<builder, bound, panicked>>

\* Pairing begin and end is the caller's duty; the callers modelled here
\* end only a pass they began.
end_render_pass ==
    /\ ~panicked /\ nops < MaxOps
    /\ NumEnds < NumPasses
    /\ log' = Append(log, [op |-> "cmd_end_render_pass"])
    /\ calls' = Append(calls, [fn |-> "end_render_pass", from |-> Len(log), to |-> Len(log) + 1])
    /\ nops' = nops + 1
    /\ UNCHANGED <<builder, bound, next_handle, framebuffer_cache, panicked>>

NextRenderPass ==
    \/ begin_render_pass
    \/ end_render_pass

SpecRenderPass == Init /\ [][NextRenderPass]_vars

---------------------------------------------------------------------------
(* bind_descriptor_set applied on its own, to any DescriptorSetBinding list *)

UnsupportedImage ==
    [tag |-> "Image", image_layout |-> "COLOR_ATTACHMENT_OPTIMAL",
     image_view |-> image_view("img_a", "view_default")]

\* every binding bind() can make, turned into a DescriptorSetBinding
BoundRef(ref) == ToDescriptorSetBinding(bind(ref, "view_default"))

DescriptorSetBindingLists ==
    { ToDescriptorSetBindings(l) : l \in BindingLists }
    \cup { << BoundRef(r) >> : r \in {x \in BindableRefs : x.handle # "img_c"} }
    \cup { << UnsupportedImage >>,
           << BoundRef(Ref("Buffer", "GpuSrv", "buf_a")), UnsupportedImage >> }

NumMats == Cardinality({i \in DOMAIN calls : calls[i].fn = "bind_descriptor_set"})

materialize ==
    /\ ~panicked
    /\ NumMats < MaxMats
    /\ \E h \in {"cs_a", "cs_b", "rs_c"},
          set_index \in SetIndices, bindings \in DescriptorSetBindingLists :
         LET pipeline == IF h \in ComputePipelineHandles
                         THEN compute_pipeline(h) ELSE raster_pipeline(h)
             r == bind_descriptor_set(pipeline, set_index, bindings, next_handle)
         IN  /\ log' = log \o r.events
             /\ next_handle' = r.next
             /\ panicked' = r.panicked
             /\ calls' = Append(calls, [fn |-> "bind_descriptor_set", pipeline |-> pipeline,
                                        mats |-> << [set_index |-> set_index,
                                                     bindings |-> bindings,
                                                     from |-> Len(log),
                                                     to |-> Len(log) + Len(r.events)] >>,
                                        from |-> Len(log), to |-> Len(log) + Len(r.events)])
    /\ nops' = nops + 1
    /\ UNCHANGED <<builder, bound, framebuffer_cache>>

NextMaterialize == materialize

SpecMaterialize == Init /\ [][NextMaterialize]_vars

---------------------------------------------------------------------------
(* Reading the log *)

\* positions of the log inside a range (from, to]
Range(r) == (r.from + 1)..(r.to)

BindCalls ==
    {i \in DOMAIN calls : calls[i].fn \in {"bind_compute_pipeline", "bind_raster_pipeline"}}

MatCalls == BindCalls \cup {i \in DOMAIN calls : calls[i].fn = "bind_descriptor_set"}

\* the set index of materialization m exists in the layout of call c's pipeline
SetExists(c, m) == m.set_index < Len(c.pipeline.set_layout_info)

\* the binding indices that set declares
DeclaredIn(c, m) == c.pipeline.set_layout_info[m.set_index + 1]

OpsIn(r, op) == {p \in Range(r) : log[p].op = op}

\* the descriptor writes emitted in a range, as <<log position, write index>>
WritesIn(r) ==
    UNION {{<<p, k>> : k \in DOMAIN log[p].writes} : p \in OpsIn(r, "update_descriptor_sets")}

WriteAt(pk) == log[pk[1]].writes[pk[2]]

\* the descriptor sets allocated in a range
SetsAllocatedIn(r) == {log[p].set : p \in OpsIn(r, "allocate_descriptor_sets")}

---------------------------------------------------------------------------
(* Claims *)

\* C1: for a set index that exists in the layout, the descriptor writes
\* emitted are exactly one write per list position i that the set's layout
\* declares (dst_binding = i, carrying the i-th binding), and no write is
\* emitted for an undeclared index or a position beyond the list.
C1_WritesExactlyDeclared ==
    \A i \in BindCalls : \A k \in DOMAIN calls[i].mats :
        LET c == calls[i]
            m == c.mats[k]
        IN  SetExists(c, m) =>
              /\ \A pk \in WritesIn(m) :
                    /\ WriteAt(pk).dst_binding \in DeclaredIn(c, m)
                    /\ WriteAt(pk).dst_binding < Len(m.bindings)
                    /\ WriteAt(pk).info = m.bindings[WriteAt(pk).dst_binding + 1]
              /\ \A b \in DeclaredIn(c, m) :
                    b < Len(m.bindings) =>
                       Cardinality({pk \in WritesIn(m) : WriteAt(pk).dst_binding = b}) = 1

\* the scenario of C1: layout declaring only binding 0, a 2-element list,
\* exactly one write, at index 0, and the set bound
C1_Witness ==
    \E i \in BindCalls : \E k \in DOMAIN calls[i].mats :
        LET c == calls[i]
            m == c.mats[k]
        IN  /\ SetExists(c, m)
            /\ DeclaredIn(c, m) = {0}
            /\ Len(m.bindings) = 2
            /\ Cardinality(WritesIn(m)) = 1
            /\ \A pk \in WritesIn(m) : WriteAt(pk).dst_binding = 0
            /\ OpsIn(m, "cmd_bind_descriptor_sets") # {}
            /\ ~panicked

\* the binds of the per-frame constants set recorded by a call
FrameBindsIn(r) ==
    {p \in OpsIn(r, "cmd_bind_descriptor_sets") : log[p].set = frame_descriptor_set}

\* C2: bind_compute_pipeline and bind_raster_pipeline bind the per-frame
\* constants set (with the frame constants dynamic offset) at set index 2 if
\* and only if the layout has a non-empty set 2; the bind is recorded right
\* after the pipeline bind and before every pass-declared set.
C2_FrameConstantsIffSet2 ==
    \A i \in BindCalls :
        LET c == calls[i]
            layout == c.pipeline.set_layout_info
            wanted == Len(layout) > 2 /\ layout[3] # {}
        IN  /\ log[c.from + 1].op = "cmd_bind_pipeline"
            /\ wanted =>
                  /\ FrameBindsIn(c) = {c.from + 2}
                  /\ log[c.from + 2].first_set = 2
                  /\ log[c.from + 2].offsets = <<frame_constants_offset>>
                  /\ \A k \in DOMAIN c.mats : c.mats[k].from >= c.from + 2
                  /\ \A p \in OpsIn(c, "cmd_bind_descriptor_sets") : p >= c.from + 2
            /\ ~wanted => FrameBindsIn(c) = {}

\* a compute and a raster bind, one with the frame constants bound ahead of
\* a declared set, one on a pipeline with no set 2 binding none
C2_Witness ==
    /\ \E i \in BindCalls :
          /\ FrameBindsIn(calls[i]) # {}
          /\ \E k \in DOMAIN calls[i].mats :
                OpsIn(calls[i].mats[k], "cmd_bind_descriptor_sets") # {}
    /\ \E i \in BindCalls :
          /\ FrameBindsIn(calls[i]) = {}
          /\ Len(calls[i].pipeline.set_layout_info) > 2
    /\ \E i, j \in BindCalls : calls[i].fn # calls[j].fn

\* the binds of caller-supplied raw sets recorded by a call, in order
IsRawBind(e) == e.op = "cmd_bind_descriptor_sets" /\ e.set.kind = "raw"

RawBindsOf(c) ==
    LET raw == SelectSeq(SubSeq(log, c.from + 1, c.to), IsRawBind)
    IN  [j \in DOMAIN raw |-> <<raw[j].first_set, raw[j].set>>]

\* C4: for both bind_compute_pipeline and bind_raster_pipeline, every
\* (set-index, raw set) override of the builder results in exactly one bind
\* of that raw set at that index, recorded after the declared sets, with no
\* pool allocated and no descriptor write made for it.
C4_RawOverridesBound ==
    \A i \in BindCalls :
        LET c == calls[i]
        IN  /\ RawBindsOf(c) = c.binding.raw_bindings
            /\ \A p \in Range(c) :
                  IsRawBind(log[p]) =>
                     /\ \A k \in DOMAIN c.mats : p > c.mats[k].to
                     /\ log[p].offsets = <<>>
            /\ \A p \in OpsIn(c, "create_descriptor_pool") \cup OpsIn(c, "update_descriptor_sets") :
                  \E k \in DOMAIN c.mats : p \in Range(c.mats[k])

\* C5: bind_descriptor_set with a set index the layout does not have is a
\* no-op raising no error: no pool, no deferred release, no set, no write and
\* no bind; the surrounding bind goes on with the remaining pairs.
C5_MissingSetIsNoOp ==
    \A i \in BindCalls :
        LET c == calls[i]
        IN  /\ Len(c.mats) = Len(c.binding.bindings)
            /\ \A k \in DOMAIN c.mats :
                  LET m == c.mats[k]
                  IN  /\ m.set_index = c.binding.bindings[k][1]
                      /\ ~SetExists(c, m) =>
                            /\ \A p \in Range(m) : log[p].op = "println"
                            /\ ~panicked
                      /\ SetExists(c, m) =>
                            \E p \in OpsIn(m, "cmd_bind_descriptor_sets") :
                                log[p].first_set = m.set_index

\* a pair with a missing set index followed by a pair that was materialized
C5_Witness ==
    \E i \in BindCalls : \E k, l \in DOMAIN calls[i].mats :
        /\ k < l
        /\ ~SetExists(calls[i], calls[i].mats[k])
        /\ SetExists(calls[i], calls[i].mats[l])
        /\ OpsIn(calls[i].mats[l], "cmd_bind_descriptor_sets") # {}
        /\ OpsIn(calls[i].mats[k], "create_descriptor_pool") = {}

\* descriptor set binding d is the one made from render pass binding b
Carries(d, b) ==
    /\ d.tag = b.tag
    /\ d.tag = "Image" =>
          /\ d.image_layout = b.image_layout
          /\ d.image_view = [image |-> b.handle, view_desc |-> b.view_desc]
    /\ d.tag = "Buffer" => d.buffer = [buffer |-> b.handle]

\* the pools a materialization created
PoolsCreatedIn(r) == {log[p].pool : p \in OpsIn(r, "create_descriptor_pool")}

\* the set left bound at a set index by the binds recorded in a range
LastBindAt(r, set_index) ==
    LET ps == {p \in OpsIn(r, "cmd_bind_descriptor_sets") : log[p].first_set = set_index}
    IN  log[CHOOSE p \in ps : \A q \in ps : q <= p].set

WholeLog == [from |-> 0, to |-> Len(log)]

\* the materializations that found their set: <<call, position in the call>>
Materializations ==
    UNION {{<<i, k>> : k \in {k \in DOMAIN calls[i].mats : SetExists(calls[i], calls[i].mats[k])}}
           : i \in MatCalls}

MatOf(ik) == calls[ik[1]].mats[ik[2]]

\* C8: every descriptor pool bind_descriptor_set creates is enqueued for
\* deferred release exactly once, before the set allocated from it is bound;
\* each materialization creates its own pool and set, and no pool or set is
\* used by two materializations.
C8_PoolsReleasedAndOwned ==
    LET creates == OpsIn(WholeLog, "create_descriptor_pool")
        releases == OpsIn(WholeLog, "defer_release")
        allocs == OpsIn(WholeLog, "allocate_descriptor_sets")
        binds == OpsIn(WholeLog, "cmd_bind_descriptor_sets")
        mats == Materializations
    IN  /\ \A p \in creates :
              LET released == {q \in releases : log[q].pool = log[p].pool}
                  from_pool == {a \in allocs : log[a].pool = log[p].pool}
              IN  /\ Cardinality(released) = 1
                  /\ Cardinality(from_pool) = 1
                  /\ \A q \in released :
                        /\ q > p
                        /\ \A a \in from_pool : \A b \in binds :
                              log[b].set = log[a].set => q < b
                  /\ \A p2 \in creates : p2 # p => log[p2].pool # log[p].pool
        /\ \A q \in releases : \E p \in creates : log[p].pool = log[q].pool
        /\ \A a \in allocs :
              /\ \A a2 \in allocs : a2 # a => log[a2].set # log[a].set
              /\ Cardinality({b \in binds : log[b].set = log[a].set}) <= 1
        /\ Cardinality(creates) = Cardinality(mats)
        /\ \A ik \in mats :
              LET m == MatOf(ik)
                  pools == PoolsCreatedIn(m)
                  sets == SetsAllocatedIn(m)
              IN  /\ Cardinality(pools) = 1
                  /\ Cardinality(sets) = 1
                  /\ \A a \in OpsIn(m, "allocate_descriptor_sets") : log[a].pool \in pools
                  /\ \A pk \in WritesIn(m) : WriteAt(pk).dst_set \in sets
                  /\ \A b \in OpsIn(m, "cmd_bind_descriptor_sets") : log[b].set \in sets

\* two bind_*_pipeline calls, each having materialized and bound a set from
\* its own released pool
C8_Witness ==
    \E ik, jl \in Materializations :
        /\ ik[1] < jl[1]
        /\ ik[1] \in BindCalls /\ jl[1] \in BindCalls
        /\ OpsIn(MatOf(ik), "defer_release") # {}
        /\ OpsIn(MatOf(jl), "defer_release") # {}
        /\ OpsIn(MatOf(ik), "cmd_bind_descriptor_sets") # {}
        /\ OpsIn(MatOf(jl), "cmd_bind_descriptor_sets") # {}
        /\ PoolsCreatedIn(MatOf(ik)) # PoolsCreatedIn(MatOf(jl))

\* C10: when the set index exists, bind_descriptor_set allocates exactly one
\* pool and one set and records exactly one bind of that set at that index
\* with no dynamic offsets, whatever survives the filter; when no supplied
\* index is declared it updates with zero writes, still binds, and raises no
\* error.
C10_OnePoolOneSetOneBind ==
    \A ik \in Materializations :
        LET c == calls[ik[1]]
            m == MatOf(ik)
        IN  /\ Cardinality(OpsIn(m, "create_descriptor_pool")) = 1
            /\ Cardinality(OpsIn(m, "allocate_descriptor_sets")) = 1
            /\ Cardinality(OpsIn(m, "update_descriptor_sets")) = 1
            /\ Cardinality(OpsIn(m, "cmd_bind_descriptor_sets")) = 1
            /\ \A b \in OpsIn(m, "cmd_bind_descriptor_sets") :
                  /\ log[b].first_set = m.set_index
                  /\ log[b].set \in SetsAllocatedIn(m)
                  /\ log[b].offsets = <<>>
                  /\ \A u \in OpsIn(m, "update_descriptor_sets") : u < b
            /\ (\A b \in DeclaredIn(c, m) : b >= Len(m.bindings)) =>
                  \A u \in OpsIn(m, "update_descriptor_sets") : log[u].writes = <<>>
            /\ ~panicked

\* a non-empty binding list none of whose indices the set declares, and an
\* empty list, each updated with zero writes and bound
C10_Witness ==
    /\ \E ik \in Materializations :
          /\ MatOf(ik).bindings # <<>>
          /\ WritesIn(MatOf(ik)) = {}
          /\ OpsIn(MatOf(ik), "update_descriptor_sets") # {}
          /\ OpsIn(MatOf(ik), "cmd_bind_descriptor_sets") # {}
    /\ \E ik \in Materializations :
          /\ MatOf(ik).bindings = <<>>
          /\ OpsIn(MatOf(ik), "cmd_bind_descriptor_sets") # {}

DispatchCalls == {i \in DOMAIN calls : calls[i].fn = "dispatch"}

\* ceil(x / g) for g >= 1, by its defining property
Ceil(x, g) == CHOOSE q \in 0..x : q * g >= x /\ (q = 0 \/ (q - 1) * g < x)

\* C3: for every thread count [X,Y,Z] and group size [gx,gy,gz] with each
\* component >= 1, dispatch records a device dispatch whose group counts are
\* ceil(X/gx), ceil(Y/gy), ceil(Z/gz), each axis on its own.
C3_DispatchCeil ==
    \A i \in DispatchCalls :
        LET c == calls[i]
            group_size == c.pipeline.group_size
        IN  SubSeq(log, c.from + 1, c.to) =
               << [op |-> "cmd_dispatch",
                   groups |-> [a \in 1..3 |-> Ceil(c.threads[a], group_size[a])]] >>

BeginCalls == {i \in DOMAIN calls : calls[i].fn = "begin_render_pass"}

\* the framebuffer a begin_render_pass call began its pass with
FramebufferOf(c) == log[c.to].framebuffer

\* two calls with identical dimensions and identical attachment image
\* descriptors: the colors in order, and the optional depth
SameShape(c, d) ==
    /\ c.dims = d.dims
    /\ Len(c.color_attachments) = Len(d.color_attachments)
    /\ \A k \in DOMAIN c.color_attachments :
          ImageDescOfHandle(c.color_attachments[k].ref.handle)
             = ImageDescOfHandle(d.color_attachments[k].ref.handle)
    /\ Len(c.depth_attachment) = Len(d.depth_attachment)
    /\ \A k \in DOMAIN c.depth_attachment :
          ImageDescOfHandle(c.depth_attachment[k].ref.handle)
             = ImageDescOfHandle(d.depth_attachment[k].ref.handle)

TypeOfRef(ref) ==
    CASE ref.res = "Image" /\ ref.access = "GpuSrv" -> "SAMPLED_IMAGE"
      [] ref.res = "Image" /\ ref.access = "GpuUav" -> "STORAGE_IMAGE"
      [] OTHER -> "STORAGE_BUFFER"

\* a binding list has, at an index the set declares, an image whose layout
\* is neither shader-read-only-optimal nor general
HasUnsupported(c, m) ==
    \E b \in DeclaredIn(c, m) :
        /\ b < Len(m.bindings)
        /\ m.bindings[b + 1].tag = "Image"
        /\ m.bindings[b + 1].image_layout \notin {"SHADER_READ_ONLY_OPTIMAL", "GENERAL"}

\* C9: the descriptor type of every write follows from the reference's kind
\* and access mode alone: bind() on a shader-read image gives the
\* shader-read-only-optimal layout, written as sampled image; on a
\* shader-write image the general layout, written as storage image; on a
\* buffer of either mode a storage buffer of whole-size range; an image of
\* any other layout at a declared index is fatal.
C9_DescriptorTypes ==
    /\ \A pk \in WritesIn(WholeLog) :
          LET w == WriteAt(pk)
          IN  /\ \A ref \in BindableRefs : \A v \in ViewDescs :
                    w.info = ToDescriptorSetBinding(bind(ref, v))
                        => w.descriptor_type = TypeOfRef(ref)
              /\ w.info.tag = "Image" =>
                    \/ /\ w.info.image_layout = "SHADER_READ_ONLY_OPTIMAL"
                       /\ w.descriptor_type = "SAMPLED_IMAGE"
                    \/ /\ w.info.image_layout = "GENERAL"
                       /\ w.descriptor_type = "STORAGE_IMAGE"
              /\ w.info.tag = "Buffer" =>
                    /\ w.descriptor_type = "STORAGE_BUFFER"
                    /\ w.info.range = "WHOLE_SIZE"
    /\ \A ref \in ImageRefs : \A v \in ViewDescs :
          /\ bind(ref, v).tag = "Image"
          /\ bind(ref, v).image_layout =
                IF ref.access = "GpuSrv" THEN "SHADER_READ_ONLY_OPTIMAL" ELSE "GENERAL"
    /\ \A ref \in BufferRefs : \A v \in ViewDescs : bind(ref, v).tag = "Buffer"
    /\ \A ik \in Materializations :
          LET c == calls[ik[1]]
              m == MatOf(ik)
              fatal == panicked /\ ik[1] = Len(calls)
          IN  /\ HasUnsupported(c, m) <=> fatal
              /\ fatal => /\ OpsIn(m, "update_descriptor_sets") = {}
                          /\ OpsIn(m, "cmd_bind_descriptor_sets") = {}
    /\ panicked => \E ik \in Materializations : ik[1] = Len(calls)

\* writes of the three descriptor types, from bindings bind() made of a
\* reference of every kind and access mode
C9_Witness ==
    \A res \in {"Image", "Buffer"} : \A access \in {"GpuSrv", "GpuUav"} :
        \E ref \in BindableRefs : \E v \in ViewDescs : \E pk \in WritesIn(WholeLog) :
            /\ ref.res = res /\ ref.access = access
            /\ WriteAt(pk).info = ToDescriptorSetBinding(bind(ref, v))
            /\ WriteAt(pk).descriptor_type = TypeOfRef(ref)

====
